---------------------------- MODULE Spec2Model ----------------------------
(***************************************************************************)
(* A model of the Keccak-256 circuit binding crate: the bit-part splitter  *)
(* (util::WordParts), the sparse word codec (util::pack / util::unpack),   *)
(* the instance packing codec (circuit::pack_input_to_instance /           *)
(* circuit::unpack_input), the two row walks of KeccakCircuit              *)
(* (verify_input_witnesses / constraint_public_inputs), and the            *)
(* synthesize / generate_halo2_proof control flow, and verify_halo2_proof. *)
(*                                                                         *)
(* Each component has its own specification (SpecParts, SpecSparse, ...)   *)
(* over its own group of variables; the other groups stay at their idle    *)
(* value.                                                                  *)
(***************************************************************************)
EXTENDS Integers, Sequences, FiniteSets, TLC

VARIABLES
    \* ---- WordParts::new -------------------------------------------------
    wp_args,        \* [part_size, rot, normalize]: the arguments of the call
    wp_st,          \* the local variables of the running call ([pc |-> "start"] before it)
    wp_out          \* "none" until the call returns, then its result

wpVars == <<wp_args, wp_st, wp_out>>

VARIABLES
    \* ---- util::pack / util::unpack ---------------------------------------
    sp_bits,        \* the [u8; 64] handed to pack
    sp_st           \* [pc, packed, unpacked, assert_ok]: where the round trip is

spVars == <<sp_bits, sp_st>>

VARIABLES
    \* ---- circuit::pack_input_to_instance / circuit::unpack_input ---------
    ic_call,        \* [op, arg]: the function called and its argument
    ic_out          \* [pc |-> "start"], then [pc |-> "done", val |-> the result]

icVars == <<ic_call, ic_out>>

VARIABLES
    \* ---- KeccakCircuit: verify_input_witnesses / constraint_public_inputs
    bd_inputs,      \* self.inputs
    bd_rpr,         \* self.config.rows_per_round
    bd_pos,         \* [pc, block, round, row]: the row both walks are at
    bd_vi,          \* verify_input_witnesses: input_offset, input_byte_offset,
                    \*   absorbed, and whether an assertion has failed
    bd_cp,          \* constraint_public_inputs: input_offset, total_offset,
                    \*   input_byte_offset, absorbed, and the constraints made
    bd_follows      \* whether every row read so far is the witness engine's

bdVars == <<bd_inputs, bd_rpr, bd_pos, bd_vi, bd_cp, bd_follows>>

VARIABLES
    \* ---- generate_halo2_proof and KeccakCircuit::synthesize --------------
    pv_call,        \* the entry point called and its arguments
    pv,             \* generate_halo2_proof: pc, circuit, instance, prover calls, result
    sy              \* synthesize: pc, first_pass, cache, closure calls, what was done

pvVars == <<pv_call, pv, sy>>

VARIABLES
    \* ---- verify_halo2_proof ------------------------------------------------
    vf_call,        \* [proof, inputs]: the arguments of the call
    vf              \* [pc, pos, ext, result]: the transcript position, what
                    \*   verify_proof returned and what the call returned

vfVars == <<vf_call, vf>>

vars == <<wp_args, wp_st, wp_out, sp_bits, sp_st, ic_call, ic_out,
          bd_inputs, bd_rpr, bd_pos, bd_vi, bd_cp, bd_follows,
          pv_call, pv, sy, vf_call, vf>>

\* The value of each group of variables while another component runs
IdleParts == wp_args = "idle" /\ wp_st = [pc |-> "idle"] /\ wp_out = "none"
IdleSparse == sp_bits = <<>> /\ sp_st = [pc |-> "idle"]
IdleInstance == ic_call = [op |-> "idle"] /\ ic_out = [pc |-> "idle"]
IdleBind ==
    /\ bd_inputs = <<>> /\ bd_rpr = 0 /\ bd_pos = [pc |-> "idle"]
    /\ bd_vi = <<>> /\ bd_cp = <<>> /\ bd_follows = TRUE

IdleProve ==
    pv_call = [fn |-> "idle"] /\ pv = [pc |-> "idle"] /\ sy = [pc |-> "idle"]

IdleVerify == vf_call = [fn |-> "idle"] /\ vf = [pc |-> "idle"]

IdleButParts == IdleSparse /\ IdleInstance /\ IdleBind /\ IdleProve /\ IdleVerify
IdleButSparse == IdleParts /\ IdleInstance /\ IdleBind /\ IdleProve /\ IdleVerify
IdleButInstance == IdleParts /\ IdleSparse /\ IdleBind /\ IdleProve /\ IdleVerify
IdleButBind == IdleParts /\ IdleSparse /\ IdleInstance /\ IdleProve /\ IdleVerify
IdleButProve == IdleParts /\ IdleSparse /\ IdleInstance /\ IdleBind /\ IdleVerify
IdleButVerify == IdleParts /\ IdleSparse /\ IdleInstance /\ IdleBind /\ IdleProve

\* The variables a component leaves alone
notParts == <<spVars, icVars, bdVars, pvVars, vfVars>>
notSparse == <<wpVars, icVars, bdVars, pvVars, vfVars>>
notInstance == <<wpVars, spVars, bdVars, pvVars, vfVars>>
notBind == <<wpVars, spVars, icVars, pvVars, vfVars>>
notProve == <<wpVars, spVars, icVars, bdVars, vfVars>>
notVerify == <<wpVars, spVars, icVars, bdVars, pvVars>>

(***************************************************************************)
(* util/mod.rs constants                                                   *)
(***************************************************************************)
NUM_BITS_PER_BYTE == 8
NUM_BYTES_PER_WORD == 8
NUM_BITS_PER_WORD == NUM_BYTES_PER_WORD * NUM_BITS_PER_BYTE
BIT_COUNT == 3
BIT_SIZE == 2 ^ BIT_COUNT

Min(a, b) == IF a < b THEN a ELSE b

\* vec![x; n]
Repeat(x, n) == [i \in 1..n |-> x]

\* Vec::rotate_left(k) on a sequence (k <= Len(s))
RotateLeft(s, k) ==
    [i \in 1..Len(s) |-> s[((i - 1 + k) % Len(s)) + 1]]

\* Vec::rotate_right(k) on a sequence (k <= Len(s))
RotateRight(s, k) ==
    [i \in 1..Len(s) |-> s[((i - 1 + Len(s) - k) % Len(s)) + 1]]

(***************************************************************************)
(* Bit-part splitter: util/mod.rs, WordParts::new                          *)
(***************************************************************************)

\* target_part_sizes(part_size)
target_part_sizes(part_size) ==
    LET num_full_chunks == NUM_BITS_PER_WORD \div part_size
        partial_chunk_size == NUM_BITS_PER_WORD % part_size
    IN  Repeat(part_size, num_full_chunks)
          \o (IF partial_chunk_size > 0 THEN <<partial_chunk_size>> ELSE <<>>)

\* A floor-division variant of get_rotate_count (the rounding-up term left out).
get_rotate_count_floor(count, part_size) == count \div part_size

\* get_rotate_count(count, part_size)
get_rotate_count(count, part_size) ==
    (count + part_size - 1) \div part_size

\* A variant of the non-normalized target sizes that forgets the trailing
\* partial part of the second run.
wp_target_sizes_no_tail(part_size, rot, normalize) ==
    IF normalize THEN target_part_sizes(part_size)
    ELSE LET num_parts_a == rot \div part_size
             partial_part_a == rot % part_size
             num_parts_b == (64 - rot) \div part_size
         IN  Repeat(part_size, num_parts_a)
               \o (IF partial_part_a > 0 THEN <<partial_part_a>> ELSE <<>>)
               \o Repeat(part_size, num_parts_b)

\* The `target_sizes` of WordParts::new (lines 130-153)
wp_target_sizes(part_size, rot, normalize) ==
    IF normalize THEN target_part_sizes(part_size)
    ELSE LET num_parts_a == rot \div part_size
             partial_part_a == rot % part_size
             num_parts_b == (64 - rot) \div part_size
             partial_part_b == (64 - rot) % part_size
         IN  Repeat(part_size, num_parts_a)
               \o (IF partial_part_a > 0 THEN <<partial_part_a>> ELSE <<>>)
               \o Repeat(part_size, num_parts_b)
               \o (IF partial_part_b > 0 THEN <<partial_part_b>> ELSE <<>>)

\* (0usize..64).collect() then rotate_right(rot): 0-based position i holds
\* bit (i - rot) mod 64.  The sequence is 1-based, so wp_bits(rot)[i + 1].
wp_bits(rot) == RotateRight([i \in 1..64 |-> i - 1], rot)

\* The inner `while num_consumed < part_size` loop (lines 159-169).  st is
\* [parts, rot_idx, idx, num_consumed, part_bits]; idx is 0-based.
RECURSIVE wp_inner(_, _, _)
wp_inner(bits, part_size, st) ==
    IF ~(st.num_consumed < part_size) THEN st
    ELSE IF st.part_bits # <<>> /\ bits[st.idx + 1] = 0 THEN st
    ELSE wp_inner(bits, part_size,
            [st EXCEPT !.rot_idx = IF bits[st.idx + 1] = 0
                                   THEN Len(st.parts) ELSE @,
                       !.part_bits = Append(@, bits[st.idx + 1]),
                       !.idx = @ + 1,
                       !.num_consumed = @ + 1])

\* The outer `while num_consumed < part_size` loop (lines 157-171)
RECURSIVE wp_outer(_, _, _)
wp_outer(bits, part_size, st) ==
    IF ~(st.num_consumed < part_size) THEN st
    ELSE LET s1 == wp_inner(bits, part_size, [st EXCEPT !.part_bits = <<>>])
         IN  wp_outer(bits, part_size,
                [s1 EXCEPT !.parts = Append(@, [bits |-> s1.part_bits])])

\* The loop state of WordParts::new before the first iteration (lines 123-153)
wp_start(part_size, rot, normalize) ==
    [pc |-> "loop",
     bits |-> wp_bits(rot),
     todo |-> wp_target_sizes(part_size, rot, normalize),
     parts |-> <<>>, rot_idx |-> 0, idx |-> 0,
     num_consumed |-> 0, part_bits |-> <<>>]

\* One iteration of `for part_size in target_sizes` (lines 155-172)
wp_iteration(st) ==
    LET s1 == wp_outer(st.bits, Head(st.todo), [st EXCEPT !.num_consumed = 0])
    IN  [s1 EXCEPT !.todo = Tail(st.todo)]

\* A variant of the end of WordParts::new that leaves out parts.rotate_left
wp_finish_no_rotate(part_size, rot, st) ==
    LET assert_rot == (get_rotate_count(rot, part_size) = st.rot_idx)
        assert_first == (st.parts # <<>> /\ st.parts[1].bits[1] = 0)
    IN  [parts |-> st.parts,
         rot_idx |-> st.rot_idx,
         assert_rot |-> assert_rot,
         assert_first |-> assert_first,
         panicked |-> ~(assert_rot /\ assert_first)]

\* Lines 174-179: the two debug assertions and the final rotate_left.  A
\* failed assertion, or indexing parts[0] of an empty list, panics.
wp_finish(part_size, rot, st) ==
    LET assert_rot == (get_rotate_count(rot, part_size) = st.rot_idx)
        rotated == IF st.parts = <<>> THEN <<>>
                   ELSE RotateLeft(st.parts, st.rot_idx % Len(st.parts))
        assert_first == (rotated # <<>> /\ rotated[1].bits[1] = 0)
    IN  [parts |-> rotated,
         rot_idx |-> st.rot_idx,
         assert_rot |-> assert_rot,
         assert_first |-> assert_first,
         panicked |-> ~(assert_rot /\ assert_first)]

PartSizes == 1..NUM_BITS_PER_WORD
Rotations == 0..(NUM_BITS_PER_WORD - 1)

wp_idle == [pc |-> "start"]

InitParts ==
    /\ wp_args \in [part_size : PartSizes, rot : Rotations, normalize : BOOLEAN]
    /\ wp_st = wp_idle
    /\ wp_out = "none"
    /\ IdleButParts

\* WordParts::new is entered: bits, target_sizes and the loop variables are set
WpBegin ==
    /\ wp_st.pc = "start"
    /\ wp_st' = wp_start(wp_args.part_size, wp_args.rot, wp_args.normalize)
    /\ UNCHANGED <<wp_args, wp_out, notParts>>

\* The for loop consumes the next target size
WpIterate ==
    /\ wp_st.pc = "loop"
    /\ wp_st.todo # <<>>
    /\ wp_st' = wp_iteration(wp_st)
    /\ UNCHANGED <<wp_args, wp_out, notParts>>

\* The loop is over: assertions, rotation, return
WpReturn ==
    /\ wp_st.pc = "loop"
    /\ wp_st.todo = <<>>
    /\ wp_out' = wp_finish(wp_args.part_size, wp_args.rot, wp_st)
    /\ wp_st' = [pc |-> "done"]
    /\ UNCHANGED <<wp_args, notParts>>

NextParts == WpBegin \/ WpIterate \/ WpReturn

SpecParts == InitParts /\ [][NextParts]_vars

WpDone == wp_st.pc = "done"

\* All bit positions of a parts list, in order of appearance
AllBits(parts) ==
    LET RECURSIVE cat(_)
        cat(k) == IF k = 0 THEN <<>> ELSE cat(k - 1) \o parts[k].bits
    IN  cat(Len(parts))

\* C1: for every part_size in 1..64, rotation in 0..63 and normalize flag, the
\* parts returned by WordParts::new partition the bit positions: 64 entries in
\* all, every one in 0..63, and each position 0..63 occurs exactly once.
C1_Partition ==
    WpDone =>
        LET all == AllBits(wp_out.parts)
        IN  /\ Len(all) = 64
            /\ \A i \in 1..Len(all) : all[i] \in 0..63
            /\ \A b \in 0..63 : Cardinality({i \in 1..Len(all) : all[i] = b}) = 1

\* C1's case: a non-normalized split whose seam falls inside a chunk has
\* returned, with a short part on each side of the seam.
C1_Witness ==
    /\ WpDone
    /\ wp_args.part_size = 5 /\ wp_args.rot = 7 /\ ~wp_args.normalize
    /\ Len(wp_out.parts) = 14

\* C2: for every part_size in 1..64, rotation in 0..63 and normalize flag, the
\* part that begins with bit 0 is built at index get_rotate_count(rot,
\* part_size) = ceil(rot / part_size): neither debug assertion fails, and after
\* the final rotation parts[0].bits[0] = 0.
C2_SeamFirst ==
    WpDone =>
        /\ wp_out.rot_idx * wp_args.part_size >= wp_args.rot
        /\ (wp_out.rot_idx - 1) * wp_args.part_size < wp_args.rot
        /\ wp_out.assert_rot
        /\ wp_out.assert_first
        /\ ~wp_out.panicked
        /\ wp_out.parts[1].bits[1] = 0

\* C2's case: a normalized split whose rotation is no multiple of the part
\* size has returned, so the seam part was built at a rounded-up index.
C2_Witness ==
    /\ WpDone
    /\ wp_args.part_size = 5 /\ wp_args.rot = 7 /\ wp_args.normalize
    /\ wp_out.rot_idx = 2

(***************************************************************************)
(* Numbers wider than the checker's integers.  A u64, a U256 (eth_types    *)
(* Word) and the canonical representative of a field element are          *)
(* little-endian sequences of 16-bit limbs: 4 limbs for a u64, 16 for the  *)
(* 256-bit types.                                                          *)
(***************************************************************************)
LimbBits == 2 * NUM_BITS_PER_BYTE
LimbBase == 2 ^ LimbBits
U64Limbs == NUM_BITS_PER_WORD \div LimbBits
U256Limbs == 4 * U64Limbs

\* The scalar field of bn256 (halo2curves bn256::Fr), the F the circuit is
\* instantiated with: r =
\* 0x30644e72e131a029b85045b68181585d2833e84879b9709143e1f593f0000001
FrModulus ==
    <<1, 61440, 62867, 17377, 28817, 31161, 59464, 10291,
      22621, 33153, 17846, 47184, 41001, 57649, 20082, 12388>>

Zeros(n) == Repeat(0, n)

\* Zero-extend (or keep) a limb sequence to n limbs
ExtendTo(x, n) == [i \in 1..n |-> IF i <= Len(x) THEN x[i] ELSE 0]

\* x >= y for limb sequences of one length
LimbsGe(x, y) ==
    LET d == {i \in 1..Len(x) : x[i] # y[i]}
    IN  d = {} \/ (LET top == CHOOSE i \in d : \A j \in d : j <= i
                   IN  x[top] > y[top])

\* x * k + c for a small multiplier k and a small addend c, one limb longer
\* than x (schoolbook, carry by carry)
LimbsMulAdd(x, k, c) ==
    LET RECURSIVE go(_, _)
        go(i, carry) ==
            IF i > Len(x) THEN <<carry>>
            ELSE LET t == x[i] * k + carry
                 IN  <<t % LimbBase>> \o go(i + 1, t \div LimbBase)
    IN  go(1, c)

\* x - y for limb sequences of one length with x >= y
LimbsSub(x, y) ==
    LET RECURSIVE go(_, _)
        go(i, borrow) ==
            IF i > Len(x) THEN <<>>
            ELSE LET t == x[i] - y[i] - borrow
                 IN  <<t % LimbBase>> \o go(i + 1, IF t < 0 THEN 1 ELSE 0)
    IN  go(1, 0)

\* The canonical representative of x modulo the field's modulus, for an x of
\* U256Limbs + 1 limbs below (k + 1) * modulus with k small
RECURSIVE FReduce(_)
FReduce(x) ==
    LET m == ExtendTo(FrModulus, Len(x))
    IN  IF LimbsGe(x, m) THEN FReduce(LimbsSub(x, m))
        ELSE SubSeq(x, 1, U256Limbs)

\* F::ZERO
F_ZERO == Zeros(U256Limbs)

\* acc * F::from(base) + F::from(bit), in the field (the fold's closure,
\* util/mod.rs line 80)
F_MulAdd(acc, base, bit) == FReduce(LimbsMulAdd(acc, base, bit))

\* A variant of pack_with_base that folds the bits front to back (the .rev()
\* left out)
pack_with_base_no_rev(bits, base) ==
    LET RECURSIVE fold(_, _)
        fold(k, acc) ==
            IF k > Len(bits) \/ Len(acc) # U256Limbs THEN acc
            ELSE fold(k + 1, F_MulAdd(acc, base, bits[k]))
    IN  fold(1, F_ZERO)

\* pack_with_base(bits, base): bits.iter().rev().fold(ZERO, |acc, bit| acc *
\* base + bit).  fold(k, acc) folds in the elements from the k-th (1-based)
\* down to the first; the test on Len(acc), always false, makes the
\* accumulator a value before the next element is folded in.
pack_with_base(bits, base) ==
    LET RECURSIVE fold(_, _)
        fold(k, acc) ==
            IF k = 0 \/ Len(acc) # U256Limbs THEN acc
            ELSE fold(k - 1, F_MulAdd(acc, base, bits[k]))
    IN  fold(Len(bits), F_ZERO)

\* pack(bits)
pack(bits) == pack_with_base(bits, BIT_SIZE)

\* The low limb of (packed >> shift) for a U256
ShiftRightLow(packed, shift) ==
    LET q == shift \div LimbBits
        r == shift % LimbBits
        lo == packed[q + 1] \div (2 ^ r)
        hi == IF q + 2 <= Len(packed)
              THEN (packed[q + 2] % (2 ^ r)) * (2 ^ (LimbBits - r))
              ELSE 0
    IN  lo + hi

\* A variant of the digit read of unpack that shifts by idx bits instead of
\* idx * BIT_COUNT
unpack_digit_narrow(packed, idx) ==
    ShiftRightLow(packed, idx) % BIT_SIZE

\* ((packed >> (idx * BIT_COUNT)) & mask).as_u32() as u8, mask = BIT_SIZE - 1
unpack_digit(packed, idx) ==
    ShiftRightLow(packed, idx * BIT_COUNT) % BIT_SIZE

\* unpack(packed): the 64 digits, and whether the debug assertion
\* pack(bits) == packed.to_scalar().unwrap() holds (to_scalar of a canonical
\* representative gives the element back)
unpack(packed) ==
    LET bits == [i \in 1..NUM_BITS_PER_WORD |-> unpack_digit(packed, i - 1)]
    IN  [bits |-> bits, assert_ok |-> (pack(bits) = packed)]

\* The arrays the round trip is run on: at most MaxOnes positions differ from
\* a uniform array of zeros or of ones.
MaxOnes == 1

\* The sets of at most k positions of the word
RECURSIVE PositionSets(_)
PositionSets(k) ==
    IF k = 0 THEN {{}}
    ELSE LET prev == PositionSets(k - 1)
         IN  prev \cup {S \cup {x} : S \in prev, x \in 1..NUM_BITS_PER_WORD}

SparseInputs ==
    UNION { { [i \in 1..NUM_BITS_PER_WORD |-> IF i \in S THEN 1 - fill ELSE fill] :
              S \in PositionSets(MaxOnes) } : fill \in {0, 1} }

InitSparse ==
    /\ sp_bits \in SparseInputs
    /\ sp_st = [pc |-> "start"]
    /\ IdleButSparse

\* let packed = pack::<F>(&bits)
SparsePack ==
    /\ sp_st.pc = "start"
    /\ sp_st' = [pc |-> "packed", packed |-> pack(sp_bits)]
    /\ UNCHANGED <<sp_bits, notSparse>>

\* let bits = unpack(packed)
SparseUnpack ==
    /\ sp_st.pc = "packed"
    /\ LET r == unpack(sp_st.packed)
       IN  sp_st' = [pc |-> "done", packed |-> sp_st.packed,
                     unpacked |-> r.bits, assert_ok |-> r.assert_ok]
    /\ UNCHANGED <<sp_bits, notSparse>>

NextSparse == SparsePack \/ SparseUnpack

SpecSparse == InitSparse /\ [][NextSparse]_vars

\* Bit b (0-based) of a limb sequence
BitOf(x, b) == (x[(b \div LimbBits) + 1] \div (2 ^ (b % LimbBits))) % 2

\* C3: for every 64-element array of 0/1 values, pack puts bits[i] at digit i
\* of base 8 (bit i contributes bits[i] * 8^i), unpack(pack(bits)) = bits, and
\* the re-pack assertion inside unpack holds.
C3_SparseRoundTrip ==
    /\ sp_st.pc \in {"packed", "done"} =>
          \A b \in 0..(U256Limbs * LimbBits - 1) :
              BitOf(sp_st.packed, b) =
                  IF b % BIT_COUNT = 0 /\ b \div BIT_COUNT < NUM_BITS_PER_WORD
                  THEN sp_bits[(b \div BIT_COUNT) + 1] ELSE 0
    /\ sp_st.pc = "done" => sp_st.unpacked = sp_bits /\ sp_st.assert_ok

\* C3's case: an array with ones at the top position and at one whose digit
\* straddles two limbs has gone through pack and unpack.
C3_Witness ==
    /\ sp_st.pc = "done"
    /\ sp_bits[64] = 1 /\ sp_bits[6] = 1 /\ sp_bits[1] = 0
    /\ sp_st.unpacked[64] = 1

(***************************************************************************)
(* Instance packing codec: circuit.rs, pack_input_to_instance and          *)
(* unpack_input                                                            *)
(***************************************************************************)

\* slice.chunks(n): the consecutive groups of n elements, the last one shorter
\* when the length is no multiple of n; none for an empty slice
Chunks(s, n) ==
    [c \in 1..((Len(s) + n - 1) \div n) |->
        SubSeq(s, (c - 1) * n + 1, Min(c * n, Len(s)))]

\* A variant of u64::from_le_bytes that reads the buffer most significant
\* byte first
u64_from_be_bytes(buf) ==
    [k \in 1..U64Limbs |->
        buf[NUM_BYTES_PER_WORD - 2 * k + 2]
          + (2 ^ NUM_BITS_PER_BYTE) * buf[NUM_BYTES_PER_WORD - 2 * k + 1]]

\* u64::from_le_bytes(buf): byte i (0-based) weighs 256^i
u64_from_le_bytes(buf) ==
    [k \in 1..U64Limbs |->
        buf[2 * k - 1] + (2 ^ NUM_BITS_PER_BYTE) * buf[2 * k]]

\* F::from(val: u64): a u64 is below the modulus, so it is its own canonical
\* representative
F_from_u64(val) == ExtendTo(val, U256Limbs)

\* x as u64 for a byte or another small number
U64Of(x) == ExtendTo(<<x>>, U64Limbs)

\* to_bytes_le() / to_repr(): the little-endian bytes of the canonical
\* representative
F_to_bytes_le(x) ==
    [i \in 1..(2 * Len(x)) |->
        IF i % 2 = 1 THEN x[(i + 1) \div 2] % (2 ^ NUM_BITS_PER_BYTE)
        ELSE x[i \div 2] \div (2 ^ NUM_BITS_PER_BYTE)]

\* The closure of pack_input_to_instance applied to one chunk (lines 328-333)
pack_chunk(chunk) ==
    LET buf == [i \in 1..NUM_BYTES_PER_WORD |->
                    IF i <= Len(chunk) THEN chunk[i] ELSE 0]
        val == u64_from_le_bytes(buf)
    IN  F_from_u64(val)

\* pack_input_to_instance(input)
pack_input_to_instance(input) ==
    LET per_input(input_vec) ==
            LET cs == Chunks(input_vec, NUM_BYTES_PER_WORD)
            IN  [c \in 1..Len(cs) |-> pack_chunk(cs[c])]
        RECURSIVE flat(_)
        flat(k) == IF k = 0 THEN <<>> ELSE flat(k - 1) \o per_input(input[k])
    IN  flat(Len(input))

\* A variant of unpack_input that takes each element's second byte
unpack_input_second_byte(instance) ==
    [i \in 1..Len(instance) |-> F_to_bytes_le(instance[i])[2]]

\* unpack_input(instance): x.to_bytes_le()[0] of every element
unpack_input(instance) ==
    [i \in 1..Len(instance) |-> F_to_bytes_le(instance[i])[1]]

\* The byte sequences pack_input_to_instance is run on: length 0..MaxPackLen,
\* byte j (0-based) = (start + step * j) mod 256 for a <<start, step>> pattern
MaxPackLen == 17
MaxPackInputs == 2
BytePatterns == {<<0, 0>>, <<1, 37>>}

PatternBytes(pat, len) == [j \in 1..len |-> (pat[1] + pat[2] * (j - 1)) % 256]

PackInputs == {PatternBytes(pat, len) : pat \in BytePatterns, len \in 0..MaxPackLen}

\* The sequences of at most n elements of S
RECURSIVE SeqsUpTo(_, _)
SeqsUpTo(S, n) ==
    IF n = 0 THEN {<<>>}
    ELSE LET prev == SeqsUpTo(S, n - 1)
         IN  prev \cup {Append(q, x) : q \in prev, x \in S}

\* The field elements unpack_input is run on: bytes carried as their own
\* element (Fr::from(x as u64), as in test_unpack_input), and wider elements
MaxRawLen == 3
ByteSamples == {0, 1, 151, 200, 255}
WideSamples ==
    { F_from_u64(U64Of(256 + 7)),
      F_from_u64(Repeat(LimbBase - 1, U64Limbs)),
      [FrModulus EXCEPT ![1] = 0] }
ElementSamples == {F_from_u64(U64Of(b)) : b \in ByteSamples} \cup WideSamples

InitInstance ==
    /\ \/ \E input \in SeqsUpTo(PackInputs, MaxPackInputs) :
              ic_call = [op |-> "pack_input_to_instance", arg |-> input]
       \/ \E instance \in SeqsUpTo(ElementSamples, MaxRawLen) :
              ic_call = [op |-> "unpack_input", arg |-> instance]
    /\ ic_out = [pc |-> "start"]
    /\ IdleButInstance

CallPackInputToInstance ==
    /\ ic_call.op = "pack_input_to_instance"
    /\ ic_out.pc = "start"
    /\ ic_out' = [pc |-> "done", val |-> pack_input_to_instance(ic_call.arg)]
    /\ UNCHANGED <<ic_call, notInstance>>

CallUnpackInput ==
    /\ ic_call.op = "unpack_input"
    /\ ic_out.pc = "start"
    /\ ic_out' = [pc |-> "done", val |-> unpack_input(ic_call.arg)]
    /\ UNCHANGED <<ic_call, notInstance>>

NextInstance == CallPackInputToInstance \/ CallUnpackInput

SpecInstance == InitInstance /\ [][NextInstance]_vars

CeilDiv(a, b) == (a + b - 1) \div b

\* Sum of ceil(len/8) over the first n inputs
RECURSIVE WordsBefore(_, _)
WordsBefore(input, n) ==
    IF n = 0 THEN 0
    ELSE WordsBefore(input, n - 1) + CeilDiv(Len(input[n]), NUM_BYTES_PER_WORD)

\* Byte i (1-based) of b padded with trailing zeros
PaddedByte(b, i) == IF i <= Len(b) THEN b[i] ELSE 0

\* C4: pack_input_to_instance returns sum of ceil(len/8) elements, the
\* elements of input i after those of the inputs before it, and the j-th
\* element of an input has, as its little-endian bytes, bytes [8j, 8j+8) of the
\* input padded with zeros (and nothing above the 64th bit): the elements'
\* 8-byte encodings concatenated are the input padded to a multiple of 8.
C4_PackLayout ==
    (ic_call.op = "pack_input_to_instance" /\ ic_out.pc = "done") =>
        LET input == ic_call.arg
            out == ic_out.val
        IN  /\ Len(out) = WordsBefore(input, Len(input))
            /\ \A i \in 1..Len(input) :
                 \A j \in 0..(CeilDiv(Len(input[i]), NUM_BYTES_PER_WORD) - 1) :
                    LET e == F_to_bytes_le(out[WordsBefore(input, i - 1) + j + 1])
                    IN  /\ \A t \in 1..NUM_BYTES_PER_WORD :
                              e[t] = PaddedByte(input[i], NUM_BYTES_PER_WORD * j + t)
                        /\ \A t \in (NUM_BYTES_PER_WORD + 1)..Len(e) : e[t] = 0

\* C4's case: two inputs, the first of 17 bytes (three elements, the last
\* one zero-padded) and the second non-empty, have been packed.
C4_Witness ==
    /\ ic_call.op = "pack_input_to_instance" /\ ic_out.pc = "done"
    /\ Len(ic_call.arg) = 2
    /\ Len(ic_call.arg[1]) = 17 /\ ic_call.arg[1][17] # 0
    /\ Len(ic_call.arg[2]) = 9
    /\ Len(ic_out.val) = 5

\* C5: unpack_input returns one byte per element, the lowest-order byte of
\* that element; so when every element carries one byte b[i] as F::from(b[i]),
\* the result is b (same length, same order, the empty sequence included).
C5_UnpackLowByte ==
    (ic_call.op = "unpack_input" /\ ic_out.pc = "done") =>
        LET instance == ic_call.arg
            out == ic_out.val
        IN  /\ Len(out) = Len(instance)
            /\ \A i \in 1..Len(instance) :
                 /\ out[i] \in 0..255
                 /\ out[i] = instance[i][1] % 256
                 /\ \A b \in 0..255 :
                        instance[i] = F_from_u64(U64Of(b)) => out[i] = b

\* C5's case: three bytes, each carried as its own element, have been
\* unpacked to the same three bytes.
C5_Witness ==
    /\ ic_call.op = "unpack_input" /\ ic_out.pc = "done"
    /\ ic_call.arg = <<F_from_u64(U64Of(151)), F_from_u64(U64Of(0)), F_from_u64(U64Of(255))>>
    /\ ic_out.val = <<151, 0, 255>>

(***************************************************************************)
(* Circuit binding layer: circuit.rs, KeccakCircuit::verify_input_witnesses *)
(* and KeccakCircuit::constraint_public_inputs, run row by row over the     *)
(* same assigned rows                                                       *)
(***************************************************************************)

\* vanilla::param (imported at circuit.rs line 22): Keccak-f[1600] has 24
\* rounds, the rate of 1088 bits is 17 words
NUM_ROUNDS == 24
NUM_WORDS_TO_ABSORB == 17
RATE_IN_BYTES == NUM_WORDS_TO_ABSORB * NUM_BYTES_PER_WORD

\* ---- The witness engine's rows (vanilla::witness::multi_keccak followed by
\* KeccakCircuitConfig::assign), as the specification lays them out: one
\* dummy leading round, then NUM_ROUNDS + 1 rounds per absorbed block, the
\* blocks of input 0 first; unused capacity is filled with hashes of the
\* empty input.

\* Blocks absorbed for an input of len bytes (the padding adds a block when
\* len is a multiple of the rate)
EngineBlocks(len) == len \div RATE_IN_BYTES + 1

\* Blocks of the first n inputs
RECURSIVE BlocksBefore(_, _)
BlocksBefore(inputs, n) ==
    IF n = 0 THEN 0
    ELSE BlocksBefore(inputs, n - 1) + EngineBlocks(Len(inputs[n]))

\* The input (1-based) that block `block` (0-based, the dummy round not
\* counted) belongs to; 0 for a block of unused capacity
BlockOwner(inputs, block) ==
    LET own == {i \in 1..Len(inputs) :
                   /\ BlocksBefore(inputs, i - 1) <= block
                   /\ block < BlocksBefore(inputs, i)}
    IN  IF own = {} THEN 0 ELSE CHOOSE i \in own : TRUE

\* input[start..end] (0-based, end exclusive), resized to 8 bytes with zeros,
\* read as a little-endian u64
le_word(input, start, end) ==
    u64_from_le_bytes([i \in 1..NUM_BYTES_PER_WORD |->
                          IF start + i <= end THEN input[start + i] ELSE 0])

ZeroRow == [is_final |-> FALSE, word_value |-> F_ZERO, bytes_left |-> F_ZERO]

\* The engine's row at (block, round, row): is_final on row 0 of the last
\* round of an input's last block, word_value the round's input word and
\* bytes_left the bytes not yet absorbed on row 0, zero elsewhere
EngineRow(inputs, block, round, row) ==
    LET i == BlockOwner(inputs, block)
    IN  IF row # 0 THEN ZeroRow
        ELSE IF i = 0 THEN [ZeroRow EXCEPT !.is_final = (round = NUM_ROUNDS)]
        ELSE LET input == inputs[i]
                 k == block - BlocksBefore(inputs, i - 1)
                 words == k * NUM_WORDS_TO_ABSORB + Min(round, NUM_WORDS_TO_ABSORB)
                 start == Min(words * NUM_BYTES_PER_WORD, Len(input))
                 end == IF round < NUM_WORDS_TO_ABSORB
                        THEN Min(start + NUM_BYTES_PER_WORD, Len(input))
                        ELSE start
             IN  [is_final |-> (k = EngineBlocks(Len(input)) - 1 /\ round = NUM_ROUNDS),
                  word_value |-> F_from_u64(le_word(input, start, end)),
                  bytes_left |-> F_from_u64(U64Of(Len(input) - start))]

\* Rows that differ from r in one field: the flag flipped, a value off by
\* one, or a value with a bit set above its low 128 bits
DeviantRows(r) ==
    { [r EXCEPT !.is_final = ~@],
      [r EXCEPT !.word_value = [@ EXCEPT ![1] = (@ + 1) % LimbBase]],
      [r EXCEPT !.bytes_left = [@ EXCEPT ![1] = (@ + 1) % LimbBase]],
      [r EXCEPT !.word_value = [@ EXCEPT ![2 * U64Limbs + 1] = 1]] }

\* ---- circuit.rs

\* The index in assigned_rows of row `row` of round `round` of block `block`
\* under .chunks(rows_per_round).skip(1).chunks(NUM_ROUNDS + 1)
RowIndex(rpr, block, round, row) ==
    (1 + block * (NUM_ROUNDS + 1) + round) * rpr + row

\* extract_u128: the low 16 bytes of the value, and whether the assertion that
\* the high 16 bytes are zero holds
extract_u128(x) ==
    [ok |-> \A i \in (2 * U64Limbs + 1)..Len(x) : x[i] = 0,
     val |-> SubSeq(x, 1, 2 * U64Limbs)]

\* n as u128, for a u64 in limbs
U128OfU64(v) == ExtendTo(v, 2 * U64Limbs)

\* The `end` both walks compute (lines 217-221, 277-281)
walk_end(round_idx, input_byte_offset, input_len) ==
    IF round_idx < NUM_WORDS_TO_ABSORB
    THEN Min(input_byte_offset + NUM_BYTES_PER_WORD, input_len)
    ELSE input_byte_offset

\* A variant of the loop body of verify_input_witnesses without the
\* assertion on bytes_left of lines 272-275
vi_row_no_bytes_left(inputs, vi, round_idx, row_idx, r) ==
    IF vi.status # "running" THEN vi
    ELSE
    LET word_value_val == extract_u128(r.word_value)
        bytes_left_val == extract_u128(r.bytes_left)
        failed == [vi EXCEPT !.status = "assert_failed"]
    IN  IF ~(word_value_val.ok /\ bytes_left_val.ok) THEN failed
        ELSE IF vi.input_offset >= Len(inputs) THEN
            IF word_value_val.val = Zeros(2 * U64Limbs)
               /\ bytes_left_val.val = Zeros(2 * U64Limbs)
            THEN vi ELSE failed
        ELSE
        LET input == inputs[vi.input_offset + 1]
            input_len == Len(input)
            absorbed == vi.absorbed
                        \/ (round_idx = NUM_ROUNDS /\ row_idx = 0 /\ r.is_final)
            end == walk_end(round_idx, vi.input_byte_offset, input_len)
            expected == le_word(input, vi.input_byte_offset, end)
        IN  IF row_idx # 0 THEN [vi EXCEPT !.absorbed = absorbed]
            ELSE IF word_value_val.val # U128OfU64(expected) THEN failed
            ELSE [vi EXCEPT !.absorbed = absorbed, !.input_byte_offset = end]

\* verify_input_witnesses: the loop body for one row (lines 252-292).
\* status is "running" until an assertion (or the u128 subtraction) fails.
vi_row(inputs, vi, round_idx, row_idx, r) ==
    IF vi.status # "running" THEN vi
    ELSE
    LET word_value_val == extract_u128(r.word_value)
        bytes_left_val == extract_u128(r.bytes_left)
        failed == [vi EXCEPT !.status = "assert_failed"]
    IN  IF ~(word_value_val.ok /\ bytes_left_val.ok) THEN failed
        ELSE IF vi.input_offset >= Len(inputs) THEN
            IF word_value_val.val = Zeros(2 * U64Limbs)
               /\ bytes_left_val.val = Zeros(2 * U64Limbs)
            THEN vi ELSE failed
        ELSE
        LET input == inputs[vi.input_offset + 1]
            input_len == Len(input)
            absorbed == vi.absorbed
                        \/ (round_idx = NUM_ROUNDS /\ row_idx = 0 /\ r.is_final)
            end == walk_end(round_idx, vi.input_byte_offset, input_len)
            expected == le_word(input, vi.input_byte_offset, end)
        IN  IF row_idx # 0 THEN [vi EXCEPT !.absorbed = absorbed]
            ELSE IF input_len < vi.input_byte_offset
                 THEN [vi EXCEPT !.status = "underflow"]
            ELSE IF bytes_left_val.val
                      # U128OfU64(U64Of(input_len - vi.input_byte_offset))
                 THEN failed
            ELSE IF word_value_val.val # U128OfU64(expected) THEN failed
            ELSE [vi EXCEPT !.absorbed = absorbed, !.input_byte_offset = end]

\* constraint_public_inputs: the loop body for one row (lines 195-229).
\* bound lists the constrain_instance calls: the public-input slot and the
\* assigned_rows index of the row whose word_value cell is constrained to it.
cp_row(inputs, rpr, cp, block, round_idx, row_idx, r) ==
    IF cp.input_offset >= Len(inputs) THEN cp
    ELSE
    LET input_len == Len(inputs[cp.input_offset + 1])
        absorbed == cp.absorbed
                    \/ (round_idx = NUM_ROUNDS /\ row_idx = 0 /\ r.is_final)
        end == walk_end(round_idx, cp.input_byte_offset, input_len)
    IN  IF cp.input_byte_offset >= input_len THEN cp
        ELSE IF row_idx # 0 THEN [cp EXCEPT !.absorbed = absorbed]
        ELSE [cp EXCEPT
                !.absorbed = absorbed,
                !.bound = Append(@, [slot |-> cp.total_offset,
                                     index |-> RowIndex(rpr, block, round_idx, row_idx)]),
                !.total_offset = @ + 1,
                !.input_byte_offset = end]

\* A variant of the end of an absorb chunk that moves to the next input
\* without resetting input_byte_offset
walk_block_end_no_reset(cur) ==
    IF cur.absorbed
    THEN [cur EXCEPT !.input_offset = @ + 1, !.absorbed = FALSE]
    ELSE cur

\* The end of one absorb chunk in either walk (lines 232-235, 295-298), and
\* `let mut absorbed = false` of the next
walk_block_end(cur) ==
    IF cur.absorbed
    THEN [cur EXCEPT !.input_offset = @ + 1, !.input_byte_offset = 0,
                     !.absorbed = FALSE]
    ELSE cur

\* The lengths the walks are run on (the absorption rate is 136 bytes), at
\* most MaxBindInputs inputs that fit MaxBlocks blocks, rows_per_round up to
\* MaxRowsPerRound
InputLens == {0, 1, 7, 8, 9, 135, 136, 137}
MaxBindInputs == 2
MaxBlocks == 3
MaxRowsPerRound == 2

\* Input i (1-based) of len bytes: its bytes differ from its neighbours' and
\* from the other inputs' at the same place
BindInput(i, len) == PatternBytes(<<((100 * i) % 256) + 1, 37>>, len)

InitBind ==
    /\ \E n \in 0..MaxBindInputs :
         \E lens \in [1..n -> InputLens] :
            bd_inputs = [i \in 1..n |-> BindInput(i, lens[i])]
    /\ BlocksBefore(bd_inputs, Len(bd_inputs)) <= MaxBlocks
    /\ bd_rpr \in 1..MaxRowsPerRound
    /\ bd_pos = [pc |-> "start"]
    /\ bd_vi = <<>>
    /\ bd_cp = <<>>
    /\ bd_follows = TRUE
    /\ IdleButBind

\* Both functions are entered: their cursors are initialised (lines 181-184,
\* 240-242) and the first absorb chunk starts
BindBegin ==
    /\ bd_pos.pc = "start"
    /\ bd_pos' = [pc |-> "row", block |-> 0, round |-> 0, row |-> 0]
    /\ bd_vi' = [status |-> "running", input_offset |-> 0,
                 input_byte_offset |-> 0, absorbed |-> FALSE]
    /\ bd_cp' = [input_offset |-> 0, total_offset |-> 0,
                 input_byte_offset |-> 0, absorbed |-> FALSE, bound |-> <<>>]
    /\ UNCHANGED <<bd_inputs, bd_rpr, bd_follows, notBind>>

\* Both loop bodies run on row r, the next row of assigned_rows
bind_row(r) ==
    /\ bd_pos.pc = "row"
    /\ bd_vi' = vi_row(bd_inputs, bd_vi, bd_pos.round, bd_pos.row, r)
    /\ bd_cp' = cp_row(bd_inputs, bd_rpr, bd_cp,
                       bd_pos.block, bd_pos.round, bd_pos.row, r)
    /\ bd_follows' = (bd_follows
                      /\ r = EngineRow(bd_inputs, bd_pos.block, bd_pos.round, bd_pos.row))
    /\ bd_pos' = IF bd_pos.row + 1 < bd_rpr
                 THEN [bd_pos EXCEPT !.row = @ + 1]
                 ELSE IF bd_pos.round < NUM_ROUNDS
                 THEN [bd_pos EXCEPT !.round = @ + 1, !.row = 0]
                 ELSE [bd_pos EXCEPT !.pc = "block_end"]
    /\ UNCHANGED <<bd_inputs, bd_rpr, notBind>>

\* The next row is the one the witness engine assigns
BindRow ==
    bind_row(EngineRow(bd_inputs, bd_pos.block, bd_pos.round, bd_pos.row))

\* The next row is the engine's or one that deviates from it in one field
BindRowAny ==
    /\ bd_pos.pc = "row"
    /\ \E r \in LET e == EngineRow(bd_inputs, bd_pos.block, bd_pos.round, bd_pos.row)
                IN  {e} \cup DeviantRows(e) :
          bind_row(r)

\* The absorb chunk is over in both walks
BindBlockEnd ==
    /\ bd_pos.pc = "block_end"
    /\ bd_vi' = IF bd_vi.status = "running" THEN walk_block_end(bd_vi) ELSE bd_vi
    /\ bd_cp' = walk_block_end(bd_cp)
    /\ bd_pos' = IF bd_pos.block + 1 < MaxBlocks
                 THEN [pc |-> "row", block |-> bd_pos.block + 1, round |-> 0, row |-> 0]
                 ELSE [bd_pos EXCEPT !.pc = "done"]
    /\ UNCHANGED <<bd_inputs, bd_rpr, bd_follows, notBind>>

NextBind == BindBegin \/ BindRow \/ BindBlockEnd

\* The walks over the rows of the witness engine
SpecBind == InitBind /\ [][NextBind]_vars

NextBindAny == BindBegin \/ BindRowAny \/ BindBlockEnd

\* The walks over arbitrary rows
SpecBindAny == InitBind /\ [][NextBindAny]_vars

BindDone == bd_pos.pc = "done"

\* The input (1-based) the k-th (1-based) element of
\* pack_input_to_instance(inputs) comes from
WordOwner(inputs, k) ==
    CHOOSE i \in 1..Len(inputs) :
        WordsBefore(inputs, i - 1) < k /\ k <= WordsBefore(inputs, i)

\* Where the engine lays out the word that carries the k-th element of
\* pack_input_to_instance(inputs): chunk j of input i is absorbed in round
\* j mod 17 of the input's block j div 17, on row 0
WordCell(inputs, k) ==
    LET i == WordOwner(inputs, k)
        j == k - 1 - WordsBefore(inputs, i - 1)
    IN  [block |-> BlocksBefore(inputs, i - 1) + j \div NUM_WORDS_TO_ABSORB,
         round |-> j % NUM_WORDS_TO_ABSORB,
         row |-> 0]

\* C6: for inputs that fit the capacity and rows that follow the engine
\* layout, constraint_public_inputs binds exactly sum of ceil(len/8) cells, to
\* slots 0, 1, 2, ... without gap or repeat, and the cell bound to slot k is
\* the word cell that carries the k-th element of
\* pack_input_to_instance(inputs).
C6_BindingMatchesPacking ==
    (BindDone /\ bd_follows) =>
        LET instance == pack_input_to_instance(bd_inputs)
            bound == bd_cp.bound
        IN  /\ Len(bound) = WordsBefore(bd_inputs, Len(bd_inputs))
            /\ Len(bound) = Len(instance)
            /\ \A k \in 1..Len(bound) :
                 /\ bound[k].slot = k - 1
                 /\ LET c == WordCell(bd_inputs, k)
                    IN  /\ bound[k].index = RowIndex(bd_rpr, c.block, c.round, c.row)
                        /\ EngineRow(bd_inputs, c.block, c.round, c.row).word_value
                              = instance[k]

\* C7: constraint_public_inputs constrains a cell to a slot only when the
\* cell is on row 0 of a round whose index in its block is below
\* NUM_WORDS_TO_ABSORB and an input byte remains to bind; it never binds a
\* cell of the dummy leading round or of a round with index >=
\* NUM_WORDS_TO_ABSORB.
C7_BindsOnlyAbsorbRounds ==
    [][ bd_pos.pc = "row" /\ bd_cp'.bound # bd_cp.bound =>
          /\ bd_pos.row = 0
          /\ bd_pos.round < NUM_WORDS_TO_ABSORB
          /\ bd_cp.input_offset < Len(bd_inputs)
          /\ bd_cp.input_byte_offset < Len(bd_inputs[bd_cp.input_offset + 1])
          /\ bd_cp'.bound[Len(bd_cp'.bound)].index >= bd_rpr ]_vars

\* C8: over the same inputs and the same rows, the two walks advance their
\* cursors identically: wherever both are, (input_offset, input_byte_offset)
\* is the same pair in verify_input_witnesses and constraint_public_inputs.
C8_CursorsAgree ==
    (bd_pos.pc \in {"row", "block_end", "done"} /\ bd_vi.status = "running") =>
        /\ bd_vi.input_offset = bd_cp.input_offset
        /\ bd_vi.input_byte_offset = bd_cp.input_byte_offset

(***************************************************************************)
(* circuit.rs: KeccakCircuit::synthesize and generate_halo2_proof           *)
(***************************************************************************)

\* A variant of SKIP_FIRST_PASS with the first pass not skipped
SKIP_FIRST_PASS_off == FALSE

\* util/mod.rs line 18
SKIP_FIRST_PASS == TRUE

\* A variant of the key generate_halo2_proof looks up: the name its comment
\* on line 356 gives
InputKeyLong == "input"

\* The key generate_halo2_proof looks up (line 357)
InputKey == "in"

\* The error of line 358; the source writes the key of its message between
\* backquotes, which a TLA+ string cannot hold
MissingInputError == [tag |-> "Err", msg |-> "in value not found in proof input"]

\* KeccakCircuit::new (lines 125-140)
KeccakCircuitNew(inputs, verify_output, use_instance) ==
    [inputs |-> inputs, verify_output |-> verify_output,
     use_instance |-> use_instance]

\* synthesize up to the call of assign_region (lines 79-84), load_aux_tables
\* having returned Ok
syn_enter ==
    [pc |-> "region", first_pass |-> SKIP_FIRST_PASS, cache |-> <<>>,
     calls |-> 0, done |-> <<>>, bind_idx |-> 0,
     phases |-> IF SKIP_FIRST_PASS THEN <<"AwaitingFirstPass">>
                ELSE <<"Assigning">>]

\* One invocation of the region closure (lines 87-106), the n-th.  done lists
\* what the invocation did; a failed self-check assertion panics.
syn_closure(st, circuit, n, output_ok, input_ok) ==
    IF st.first_pass
    THEN [st EXCEPT !.first_pass = FALSE, !.calls = n,
                    !.phases = Append(@, "Assigning")]
    ELSE
    LET s1 == [st EXCEPT
                 !.calls = n,
                 !.done = @ \o <<[what |-> "multi_keccak", call |-> n],
                                 [what |-> "assign", call |-> n]>>,
                 !.cache = Append(@, [assigned_in_call |-> n])]
        s2 == [s1 EXCEPT !.done = Append(@, [what |-> "verify_output_witnesses",
                                             call |-> n])]
        s3 == [s2 EXCEPT !.done = Append(@, [what |-> "verify_input_witnesses",
                                             call |-> n])]
    IN  IF ~circuit.verify_output THEN s1
        ELSE IF ~output_ok THEN [s2 EXCEPT !.pc = "panicked"]
        ELSE IF ~input_ok THEN [s3 EXCEPT !.pc = "panicked"]
        ELSE s3

\* One iteration of `for assigned_row in cache.iter()` (lines 110-116)
syn_bind(st) ==
    [st EXCEPT !.done = Append(@, [what |-> "constraint_public_inputs",
                                   call |-> st.cache[st.bind_idx + 1].assigned_in_call]),
               !.bind_idx = @ + 1]

\* The layouter invokes the region closure at most MaxClosureCalls times (the
\* SimpleFloorPlanner invokes it twice); generate_halo2_proof is given at most
\* MaxProveLen field elements under its key
MaxClosureCalls == 3
MaxProveLen == 2

ProveKeys == {"in", "input", "out"}
ProveElements == {F_from_u64(U64Of(1)), F_from_u64(U64Of(151))}

\* The HashMap<String, Vec<Fr>> arguments: any set of keys, the value under
\* "in" any short sequence of elements
ProveMaps ==
    UNION { { [k \in K |-> IF k = "in" THEN raw ELSE <<F_from_u64(U64Of(7))>>] :
              raw \in SeqsUpTo(ProveElements, MaxProveLen) } : K \in SUBSET ProveKeys }

InitProve ==
    /\ \/ \E m \in ProveMaps :
            pv_call = [fn |-> "generate_halo2_proof", inputs |-> m]
       \/ \E vo \in BOOLEAN, ui \in BOOLEAN, inputs \in {<<>>, <<<<1, 10, 100>>>>} :
            pv_call = [fn |-> "synthesize",
                       circuit |-> KeccakCircuitNew(inputs, vo, ui)]
    /\ pv = [pc |-> "start"]
    /\ sy = [pc |-> "idle"]
    /\ IdleButProve

\* generate_halo2_proof from its entry to the call of create_proof (lines
\* 356-376), or to its early return when the key is missing
GenerateProofEnter ==
    /\ pv_call.fn = "generate_halo2_proof"
    /\ pv.pc = "start"
    /\ IF InputKey \notin DOMAIN pv_call.inputs
       THEN /\ pv' = [pc |-> "returned", circuits |-> 0, prover_calls |-> 0,
                      result |-> MissingInputError]
            /\ sy' = sy
       ELSE LET raw_inputs == pv_call.inputs[InputKey]
                inputs == <<unpack_input(raw_inputs)>>
                instance == pack_input_to_instance(inputs)
            IN  /\ pv' = [pc |-> "create_proof",
                          circuit |-> KeccakCircuitNew(inputs, TRUE, TRUE),
                          circuits |-> 1,
                          instance |-> instance,
                          prover_calls |-> 1,
                          result |-> [tag |-> "none"]]
                /\ sy' = [pc |-> "start"]
    /\ UNCHANGED <<pv_call, notProve>>

\* A key generator synthesizes a circuit built with KeccakCircuit::new
\* directly (as the tests do for keygen_vk / keygen_pk)
SynthesizeDirect ==
    /\ pv_call.fn = "synthesize"
    /\ pv.pc = "start"
    /\ pv' = [pc |-> "synthesizing", circuit |-> pv_call.circuit]
    /\ sy' = [pc |-> "start"]
    /\ UNCHANGED <<pv_call, notProve>>

\* synthesize: load_aux_tables returns, Ok or (through `?`) Err
SynLoadAuxTables ==
    /\ sy.pc = "start"
    /\ \E ok \in BOOLEAN :
         sy' = IF ok THEN syn_enter ELSE [pc |-> "err"]
    /\ UNCHANGED <<pv_call, pv, notProve>>

\* The layouter invokes the region closure once more; the self-checks of the
\* invocation pass or fail
SynRegionClosure ==
    /\ sy.pc = "region"
    /\ sy.calls < MaxClosureCalls
    /\ \E output_ok \in BOOLEAN, input_ok \in BOOLEAN :
         sy' = syn_closure(sy, pv.circuit, sy.calls + 1, output_ok, input_ok)
    /\ UNCHANGED <<pv_call, pv, notProve>>

\* assign_region returns: Err leaves synthesize through `?`, Ok goes on to
\* line 109
SynRegionReturn ==
    /\ sy.pc = "region"
    /\ \E ok \in BOOLEAN :
         sy' = IF ok THEN [sy EXCEPT !.pc = "after_region"]
               ELSE [sy EXCEPT !.pc = "err"]
    /\ UNCHANGED <<pv_call, pv, notProve>>

\* constraint_public_inputs on the next cached assignment
SynBind ==
    /\ sy.pc = "after_region"
    /\ pv.circuit.use_instance
    /\ sy.bind_idx < Len(sy.cache)
    /\ sy' = syn_bind(sy)
    /\ UNCHANGED <<pv_call, pv, notProve>>

\* The loop of lines 110-116 is over, or was never entered: synthesize
\* returns Ok(()) (line 119).  The pass is Bound when the loop ran.
SynReturn ==
    /\ sy.pc = "after_region"
    /\ ~pv.circuit.use_instance \/ sy.bind_idx = Len(sy.cache)
    /\ sy' = [sy EXCEPT !.pc = "ok",
                         !.phases = IF pv.circuit.use_instance
                                    THEN Append(@, "Bound") ELSE @]
    /\ UNCHANGED <<pv_call, pv, notProve>>

\* create_proof returns and generate_halo2_proof unwraps its result (lines
\* 378-396): an Err, or a panic inside synthesize, panics
GenerateProofReturn ==
    /\ pv.pc = "create_proof"
    /\ sy.pc \in {"ok", "err", "panicked"}
    /\ \E prover_ok \in BOOLEAN :
         pv' = [pv EXCEPT
                  !.pc = IF sy.pc = "ok" /\ prover_ok THEN "returned" ELSE "panicked",
                  !.result = IF sy.pc = "ok" /\ prover_ok
                             THEN [tag |-> "Ok", instance |-> pv.instance,
                                   proof |-> "transcript"]
                             ELSE [tag |-> "none"]]
    /\ UNCHANGED <<pv_call, sy, notProve>>

NextProve ==
    \/ GenerateProofEnter \/ SynthesizeDirect
    \/ SynLoadAuxTables \/ SynRegionClosure \/ SynRegionReturn
    \/ SynBind \/ SynReturn
    \/ GenerateProofReturn

SpecProve == InitProve /\ [][NextProve]_vars

\* synthesize has passed load_aux_tables, so that its locals exist
SynLive == sy.pc \in {"region", "after_region", "ok", "panicked"}

\* What synthesize did, in order
SynWhats == [i \in 1..Len(sy.done) |-> sy.done[i].what]

\* What the n-th invocation of the region closure did, in order
ClosureWhats(n) ==
    LET of_call == SelectSeq(sy.done,
                     LAMBDA e : e.call = n /\ e.what # "constraint_public_inputs")
    IN  [i \in 1..Len(of_call) |-> of_call[i].what]

\* How many times synthesize did w
SynCount(w) == Len(SelectSeq(sy.done, LAMBDA e : e.what = w))

SelfChecks(circuit) ==
    IF circuit.verify_output
    THEN <<"verify_output_witnesses", "verify_input_witnesses">>
    ELSE <<>>

\* C9 (as amended): the first invocation of the region closure computes no
\* witness, assigns nothing, checks nothing and leaves the cache empty; the
\* second computes the witness, assigns and, when verify_output is set, runs
\* both self-checks (up to the first that aborts); no binding happens before
\* assign_region has returned; binding runs once per cached assignment when
\* use_instance is set and not at all otherwise; so when the closure is
\* invoked exactly twice and synthesize returns, assignment and the enabled
\* self-checks happen exactly once, binding exactly once when use_instance is
\* set, in the order AwaitingFirstPass, Assigning, Bound.
C9_TwoPass ==
    SynLive =>
      /\ ClosureWhats(1) = <<>>
      /\ sy.calls = 1 => sy.cache = <<>> /\ sy.done = <<>> /\ ~sy.first_pass
      /\ sy.calls >= 2 /\ sy.pc # "panicked" =>
           ClosureWhats(2) = <<"multi_keccak", "assign">> \o SelfChecks(pv.circuit)
      /\ sy.calls >= 2 /\ sy.pc = "panicked" =>
           /\ pv.circuit.verify_output
           /\ ClosureWhats(sy.calls) \in
                { <<"multi_keccak", "assign", "verify_output_witnesses">>,
                  <<"multi_keccak", "assign", "verify_output_witnesses",
                    "verify_input_witnesses">> }
      /\ sy.pc \in {"region", "panicked"} => SynCount("constraint_public_inputs") = 0
      /\ sy.pc = "ok" =>
           SynCount("constraint_public_inputs") =
             IF pv.circuit.use_instance THEN Len(sy.cache) ELSE 0
      /\ sy.pc = "ok" /\ sy.calls = 2 =>
           /\ SynWhats = <<"multi_keccak", "assign">> \o SelfChecks(pv.circuit)
                           \o (IF pv.circuit.use_instance
                               THEN <<"constraint_public_inputs">> ELSE <<>>)
           /\ sy.phases = <<"AwaitingFirstPass", "Assigning">>
                            \o (IF pv.circuit.use_instance THEN <<"Bound">> ELSE <<>>)

\* C9 as stated: binding runs once per cached assignment, so when the closure
\* is invoked exactly twice and synthesize returns, assignment, the enabled
\* self-checks and binding have each happened exactly once, in the order
\* AwaitingFirstPass, Assigning, Bound.
C9_TwoPassAlwaysBinds ==
    SynLive /\ sy.pc = "ok" =>
      /\ SynCount("constraint_public_inputs") = Len(sy.cache)
      /\ sy.calls = 2 =>
           /\ SynCount("assign") = 1
           /\ pv.circuit.verify_output =>
                /\ SynCount("verify_output_witnesses") = 1
                /\ SynCount("verify_input_witnesses") = 1
           /\ SynCount("constraint_public_inputs") = 1
           /\ sy.phases = <<"AwaitingFirstPass", "Assigning", "Bound">>

\* The prover's circuit (self-checks and binding on) has been synthesized
\* with two invocations of the region closure, and has returned
C9_Witness ==
    /\ pv_call.fn = "generate_halo2_proof"
    /\ sy.pc = "ok"
    /\ sy.calls = 2
    /\ pv.circuit.verify_output /\ pv.circuit.use_instance
    /\ SynCount("constraint_public_inputs") = 1

NextRows ==
    LET e == EngineRow(bd_inputs, bd_pos.block, bd_pos.round, bd_pos.row)
    IN  {e} \cup DeviantRows(e)

\* A field element below 2^128
Below2Pow128(x) == \A i \in 1..Len(x) : i > Len(x) \div 2 => x[i] = 0

\* The bytes the claim expects in the word of a round: the next
\* min(8, len - cursor) bytes of the input, none from round
\* NUM_WORDS_TO_ABSORB on
ClaimedTake(input, cursor, round) ==
    IF round < NUM_WORDS_TO_ABSORB
    THEN Min(NUM_BYTES_PER_WORD, Len(input) - cursor)
    ELSE 0

ClaimedWord(input, cursor, round) ==
    F_from_u64(u64_from_le_bytes(
        [t \in 1..NUM_BYTES_PER_WORD |->
            IF t <= ClaimedTake(input, cursor, round) THEN input[cursor + t] ELSE 0]))

\* What the claim asks of row r, read at (round, row) with the cursor at
\* (input_offset, cursor)
ClaimedRowOk(inputs, input_offset, cursor, round, row, r) ==
    IF input_offset >= Len(inputs)
    THEN r.word_value = F_ZERO /\ r.bytes_left = F_ZERO
    ELSE row = 0 =>
           LET input == inputs[input_offset + 1]
           IN  /\ r.bytes_left = F_from_u64(U64Of(Len(input) - cursor))
               /\ r.word_value = ClaimedWord(input, cursor, round)

\* The cursor the claim describes after row r
ClaimedCursor(inputs, input_offset, cursor, round, row) ==
    IF input_offset < Len(inputs) /\ row = 0
    THEN cursor + ClaimedTake(inputs[input_offset + 1], cursor, round)
    ELSE cursor

\* C13 (as amended): verify_input_witnesses passes a row exactly when the row
\* meets the claim's conditions (at row 0 of a round with a current input,
\* bytes_left == len - cursor and word_value == the little-endian value of
\* the next min(8, len - cursor) bytes, none from round NUM_WORDS_TO_ABSORB
\* on; with all inputs consumed, word_value == 0 and bytes_left == 0 on every
\* row) and, on every row of any index, word_value and bytes_left are below
\* 2^128; the cursor advances by the bytes taken, only in rounds below
\* NUM_WORDS_TO_ABSORB; any other row aborts with an assertion failure.
C13_AcceptanceSet ==
    bd_pos.pc = "row" /\ bd_vi.status = "running" =>
      \A r \in NextRows :
        LET after == vi_row(bd_inputs, bd_vi, bd_pos.round, bd_pos.row, r)
            claimed == /\ ClaimedRowOk(bd_inputs, bd_vi.input_offset,
                                       bd_vi.input_byte_offset,
                                       bd_pos.round, bd_pos.row, r)
                       /\ Below2Pow128(r.word_value)
                       /\ Below2Pow128(r.bytes_left)
        IN  /\ (after.status = "running") <=> claimed
            /\ after.status # "running" => after.status = "assert_failed"
            /\ after.status = "running" =>
                 /\ after.input_offset = bd_vi.input_offset
                 /\ after.input_byte_offset =
                      ClaimedCursor(bd_inputs, bd_vi.input_offset,
                                    bd_vi.input_byte_offset, bd_pos.round, bd_pos.row)

\* C13 as stated: verify_input_witnesses passes a row exactly when the row
\* meets the conditions on row 0 of a round with a current input, and on
\* every row once all inputs are consumed; any other row aborts.
C13_AcceptanceRow0Only ==
    bd_pos.pc = "row" /\ bd_vi.status = "running" =>
      \A r \in NextRows :
        (vi_row(bd_inputs, bd_vi, bd_pos.round, bd_pos.row, r).status = "running")
          <=> ClaimedRowOk(bd_inputs, bd_vi.input_offset, bd_vi.input_byte_offset,
                           bd_pos.round, bd_pos.row, r)

\* The walk over a 137-byte input has read rows off the engine layout and has
\* aborted in the second block
C13_Witness ==
    /\ bd_pos.pc \in {"row", "block_end"}
    /\ bd_pos.block = 1
    /\ Len(bd_inputs) = 1 /\ Len(bd_inputs[1]) = 137
    /\ ~bd_follows
    /\ bd_vi.status = "assert_failed"

(***************************************************************************)
(* The cursors of the two walks                                             *)
(***************************************************************************)

\* Both walks have been entered
WalksEntered == bd_pos.pc \in {"row", "block_end", "done"}

\* input_offset is at most the number of inputs, and while it indexes an
\* input, input_byte_offset is within that input
CursorInBounds(cur) ==
    /\ cur.input_offset \in 0..Len(bd_inputs)
    /\ cur.input_offset < Len(bd_inputs) =>
         cur.input_byte_offset \in 0..Len(bd_inputs[cur.input_offset + 1])

\* The slice [input_byte_offset..end] the next row 0 would take is in range
SliceInRange(cur) ==
    bd_pos.pc = "row" /\ cur.input_offset < Len(bd_inputs) =>
        LET input_len == Len(bd_inputs[cur.input_offset + 1])
            end == walk_end(bd_pos.round, cur.input_byte_offset, input_len)
        IN  cur.input_byte_offset <= end /\ end <= input_len

\* input_offset only ever grows by one, input_byte_offset is 0 right after
\* it has, and input_byte_offset goes down at no other time
CursorStep(cur, nxt) ==
    /\ nxt.input_offset # cur.input_offset =>
         nxt.input_offset = cur.input_offset + 1 /\ nxt.input_byte_offset = 0
    /\ nxt.input_byte_offset < cur.input_byte_offset =>
         nxt.input_offset = cur.input_offset + 1

\* C14: in verify_input_witnesses and in constraint_public_inputs, after any
\* rows and any pattern of finality flags, input_offset <= number of inputs
\* and, while input_offset indexes an input, 0 <= input_byte_offset <= its
\* length; so len - input_byte_offset never underflows and the slice
\* [input_byte_offset..end] is in range; and input_byte_offset is reset to 0
\* exactly when input_offset is incremented.
C14_CursorBounds ==
    /\ [](WalksEntered =>
            /\ CursorInBounds(bd_vi) /\ CursorInBounds(bd_cp)
            /\ SliceInRange(bd_vi) /\ SliceInRange(bd_cp)
            /\ bd_vi.status # "underflow")
    /\ [][bd_pos.pc \in {"row", "block_end"} =>
            CursorStep(bd_vi, bd_vi') /\ CursorStep(bd_cp, bd_cp')]_vars

\* A finality flag off the engine layout has moved both walks to the second
\* input while a byte of the 137-byte first input was still to come
C14_Witness ==
    /\ bd_pos = [pc |-> "row", block |-> 1, round |-> 0, row |-> 0]
    /\ Len(bd_inputs) = 2 /\ Len(bd_inputs[1]) = 137
    /\ ~bd_follows
    /\ bd_vi.status = "running" /\ bd_vi.input_offset = 1
    /\ bd_vi.input_byte_offset = 0
    /\ bd_cp.input_offset = 1 /\ bd_cp.input_byte_offset = 0

(***************************************************************************)
(* WordParts::new with part_size == 64                                      *)
(***************************************************************************)

\* The bit positions lo..hi in increasing order, as one part
PartOf(lo, hi) == [bits |-> [i \in 1..(hi - lo + 1) |-> lo + i - 1]]

\* C12 (as amended): for part_size == 64 and either normalize flag,
\* WordParts::new returns exactly one part, holding the positions 0..63 in
\* order, when the rotation is 0, and for every rotation in 1..63 exactly two
\* parts split at the seam: first the positions 0..63-rot, then the
\* positions 64-rot..63.
C12_PartsAt64 ==
    WpDone /\ wp_args.part_size = 64 =>
        wp_out.parts =
            IF wp_args.rot = 0 THEN <<PartOf(0, 63)>>
            ELSE <<PartOf(0, 63 - wp_args.rot), PartOf(64 - wp_args.rot, 63)>>

\* C12 as stated: for part_size == 64, every rotation in 0..63 and either
\* normalize flag, WordParts::new returns exactly one part, which holds all
\* 64 bit positions.
C12_OnePartAt64 ==
    WpDone /\ wp_args.part_size = 64 =>
        /\ Len(wp_out.parts) = 1
        /\ {wp_out.parts[1].bits[i] : i \in 1..Len(wp_out.parts[1].bits)} = 0..63

\* A normalized split with part_size 64 and a rotation other than 0 has
\* returned
C12_Witness ==
    /\ WpDone
    /\ wp_args.part_size = 64 /\ wp_args.rot = 5 /\ wp_args.normalize
    /\ Len(wp_out.parts) = 2

(***************************************************************************)
(* circuit.rs: verify_halo2_proof                                           *)
(***************************************************************************)

\* A variant of the result mapping that hands the verifier's error on (`?` or
\* map_err in place of is_ok)
verify_result_propagating(ext) ==
    IF ext.tag = "Ok" THEN [tag |-> "Ok", value |-> TRUE]
    ELSE [tag |-> "Err"]

\* `.is_ok()` on what verify_proof returned, wrapped in Ok (lines 420-421)
verify_result(ext) == [tag |-> "Ok", value |-> ext.tag = "Ok"]

\* The errors verify_proof can return
VerifierErrors == {"InvalidInstances", "Transcript", "ConstraintSystemFailure",
                   "Opening"}

\* The verifier reads TranscriptLen bytes from the transcript; proofs of up
\* to MaxProofLen bytes and public-input vectors of up to MaxVerifyInputs
\* elements are handed in
TranscriptLen == 2
MaxProofLen == 3
MaxVerifyInputs == 1

ProofBytes == {0, 255}

InitVerify ==
    /\ \E proof \in SeqsUpTo(ProofBytes, MaxProofLen),
          inputs \in SeqsUpTo(ProveElements, MaxVerifyInputs) :
         vf_call = [fn |-> "verify_halo2_proof", proof |-> proof, inputs |-> inputs]
    /\ vf = [pc |-> "start"]
    /\ IdleButVerify

\* Blake2bRead::init(&proof[..]) and the call of verify_proof (lines 406-419)
VerifyEnter ==
    /\ vf.pc = "start"
    /\ vf' = [pc |-> "verify_proof", pos |-> 0, ext |-> [tag |-> "running"]]
    /\ UNCHANGED <<vf_call, notVerify>>

\* verify_proof turns the public inputs down before it reads the transcript
VerifierRefusesInstances ==
    /\ vf.pc = "verify_proof" /\ vf.ext.tag = "running" /\ vf.pos = 0
    /\ vf' = [vf EXCEPT !.ext = [tag |-> "Err", error |-> "InvalidInstances"]]
    /\ UNCHANGED <<vf_call, notVerify>>

\* verify_proof reads the next byte of the transcript; a proof that ends
\* early makes the read, and with it verify_proof, fail
VerifierReads ==
    /\ vf.pc = "verify_proof" /\ vf.ext.tag = "running"
    /\ vf.pos < TranscriptLen
    /\ vf' = IF vf.pos < Len(vf_call.proof)
             THEN [vf EXCEPT !.pos = @ + 1]
             ELSE [vf EXCEPT !.ext = [tag |-> "Err", error |-> "Transcript"]]
    /\ UNCHANGED <<vf_call, notVerify>>

\* verify_proof has read the whole transcript and accepts or rejects
VerifierDecides ==
    /\ vf.pc = "verify_proof" /\ vf.ext.tag = "running"
    /\ vf.pos = TranscriptLen
    /\ \E ext \in {[tag |-> "Ok"]} \cup
                  {[tag |-> "Err", error |-> e] :
                     e \in {"ConstraintSystemFailure", "Opening"}} :
         vf' = [vf EXCEPT !.ext = ext]
    /\ UNCHANGED <<vf_call, notVerify>>

\* .is_ok() and Ok(proof_verified) (lines 420-421)
VerifyReturn ==
    /\ vf.pc = "verify_proof" /\ vf.ext.tag # "running"
    /\ vf' = [vf EXCEPT !.pc = "returned"] @@ [result |-> verify_result(vf.ext)]
    /\ UNCHANGED <<vf_call, notVerify>>

NextVerify ==
    \/ VerifyEnter \/ VerifierRefusesInstances \/ VerifierReads
    \/ VerifierDecides \/ VerifyReturn

SpecVerify == InitVerify /\ [][NextVerify]_vars

\* C11: verify_halo2_proof never returns an error and never aborts: whatever
\* the proof bytes (truncated ones included) and the public inputs, it
\* returns Ok(true) exactly when verify_proof accepted and Ok(false) in every
\* other case.
C11_VerifyNeverErrs ==
    /\ vf.pc \in {"idle", "start", "verify_proof", "returned"}
    /\ vf.pc = "returned" =>
         /\ vf.result.tag = "Ok"
         /\ vf.result.value = (vf.ext.tag = "Ok")
         /\ vf.ext.tag = "Err" => vf.ext.error \in VerifierErrors

\* A truncated proof has been turned down with Ok(false)
C11_Witness ==
    /\ vf.pc = "returned"
    /\ Len(vf_call.proof) < TranscriptLen
    /\ vf.ext = [tag |-> "Err", error |-> "Transcript"]
    /\ vf.result = [tag |-> "Ok", value |-> FALSE]

=============================================================================
